---- MODULE Spec2Model ----
(***************************************************************************)
(* Glass cutting optimizer (src/main.py): the material catalog             *)
(* (GlassInventory), the per-sheet free-space tracker (Sheet) and the      *)
(* largest-first multi-pass packing loop                                   *)
(* (GlassCuttingOptimizer.optimize_cutting), modelled as a state machine   *)
(* whose steps are the iterations of the loops of optimize_cutting.        *)
(* Widths, heights and positions are whole numbers (millimetres); indexes  *)
(* named as in the source (i, space_index, best_space_index) count from 0. *)
(***************************************************************************)
EXTENDS Integers, Sequences, FiniteSets, TLC

(***************************************************************************)
(* Bounds of the model and the small sets the inputs are drawn from.       *)
(***************************************************************************)
\* Largest number of piece instances (sum of the quantities) of one demand.
MaxPieces == 3
\* Cap on the sheets one call opens: the outer loop of optimize_cutting has
\* no bound of its own when a piece fits no empty sheet.
MaxSheets == 4

PieceDims == {1, 2, 3}
ThicknessValues == {0, 6}
WidthValues == {0, 3}
HeightValues == {-2, 2, 3}
RegCodes == {"S"}
CallCodes == {"S"}

\* Demand lines (width, height, quantity), as the tuples of `pieces`.
Lines == PieceDims \X PieceDims \X (1..MaxPieces)

RECURSIVE DemandsWithin(_)
DemandsWithin(budget) ==
    {<<>>} \cup
    UNION {{<<l>> \o d : d \in DemandsWithin(budget - l[3])} :
             l \in {ln \in Lines : ln[3] <= budget}}

Demands == DemandsWithin(MaxPieces)

(***************************************************************************)
(* Material catalog: StockSheet and GlassInventory.                        *)
(***************************************************************************)
StockSheet(thickness_mm, width_mm, height_mm) ==
    [thickness_mm |-> thickness_mm, width_mm |-> width_mm, height_mm |-> height_mm]

\* Mutant of PostInitRaises: "< 0" for "<= 0".
PostInitRaises_negative_only(thickness_mm, width_mm, height_mm) ==
    \E dim \in {thickness_mm, width_mm, height_mm} : dim < 0

\* StockSheet.__post_init__: TRUE when the constructor raises ValueError.
PostInitRaises(thickness_mm, width_mm, height_mm) ==
    \E dim \in {thickness_mm, width_mm, height_mm} : dim <= 0

\* GlassInventory.__init__: the built-in catalog.
DefaultStockSizes ==
    [code \in {"CL3", "CL4", "CL6", "CL10", "HN6", "FIL6"} |->
        CASE code = "CL3"  -> StockSheet(3, 2440, 1830)
          [] code = "CL4"  -> StockSheet(4, 2440, 1830)
          [] code = "CL6"  -> StockSheet(6, 3300, 2600)
          [] code = "CL10" -> StockSheet(10, 3600, 2600)
          [] code = "HN6"  -> StockSheet(6, 3300, 2600)
          [] code = "FIL6" -> StockSheet(6, 3600, 2600)]

\* dict item assignment: stock_sizes[code] = value.
SetItem(d, key, value) ==
    [k \in DOMAIN d \cup {key} |-> IF k = key THEN value ELSE d[k]]

(***************************************************************************)
(* Rectangle.                                                              *)
(***************************************************************************)
NoPosition == <<>>
NoSpace == <<>>

\* Rectangle.__init__.  id is the object's identity (its place in the
\* expansion of the demand) and line the demand line it comes from; space is
\* a history field: the free region the piece was placed into.
Rectangle(id, line, width, height) ==
    [id |-> id, line |-> line, width |-> width, height |-> height,
     rotated |-> FALSE, position |-> NoPosition, space |-> NoSpace]

can_rotate(rectangle) == rectangle.width # rectangle.height

get_dimensions(rectangle) ==
    IF rectangle.rotated THEN <<rectangle.height, rectangle.width>>
    ELSE <<rectangle.width, rectangle.height>>

(***************************************************************************)
(* Sheet: the free-space tracker.                                          *)
(***************************************************************************)
\* Sheet.__init__.
Sheet(stock) ==
    [width |-> stock.width_mm, height |-> stock.height_mm,
     thickness |-> stock.thickness_mm,
     placed_rectangles |-> <<>>,
     spaces |-> << <<0, 0, stock.width_mm, stock.height_mm>> >>]

\* Mutant of Infinity: min_waste starts at 0.
ZeroWaste == [inf |-> FALSE, v |-> 0]

\* Mutant of LessThan: "<=" for "<".
AtMost(waste, min_waste) == min_waste.inf \/ waste <= min_waste.v

\* min_waste: float('inf') or a finite number.
Infinity == [inf |-> TRUE, v |-> 0]
Finite(v) == [inf |-> FALSE, v |-> v]
\* "waste < min_waste".
LessThan(waste, min_waste) == min_waste.inf \/ waste < min_waste.v

\* The locals of find_best_space before the loop.
NoBest ==
    [best_space |-> NoSpace, best_space_index |-> -1,
     min_waste |-> Infinity, should_rotate |-> FALSE]

\* Mutant of TryUnrotated: the height of the piece is not compared.
TryUnrotated_width_only(acc, space_index, space, rectangle) ==
    IF rectangle.width <= space[3]
    THEN LET waste == space[3] * space[4] - rectangle.width * rectangle.height
         IN  IF LessThan(waste, acc.min_waste)
             THEN [best_space |-> space, best_space_index |-> space_index,
                   min_waste |-> Finite(waste), should_rotate |-> FALSE]
             ELSE acc
    ELSE acc

\* Mutant of TryUnrotated: should_rotate = True, as in the rotated branch.
TryUnrotated_sets_rotate(acc, space_index, space, rectangle) ==
    IF rectangle.width <= space[3] /\ rectangle.height <= space[4]
    THEN LET waste == space[3] * space[4] - rectangle.width * rectangle.height
         IN  IF LessThan(waste, acc.min_waste)
             THEN [best_space |-> space, best_space_index |-> space_index,
                   min_waste |-> Finite(waste), should_rotate |-> TRUE]
             ELSE acc
    ELSE acc

\* find_best_space, "Try without rotation".
TryUnrotated(acc, space_index, space, rectangle) ==
    IF rectangle.width <= space[3] /\ rectangle.height <= space[4]
    THEN LET waste == space[3] * space[4] - rectangle.width * rectangle.height
         IN  IF LessThan(waste, acc.min_waste)
             THEN [best_space |-> space, best_space_index |-> space_index,
                   min_waste |-> Finite(waste), should_rotate |-> FALSE]
             ELSE acc
    ELSE acc

\* Mutant of TryRotated: the rotated orientation also wins on equal waste.
TryRotated_on_ties(acc, space_index, space, rectangle) ==
    IF can_rotate(rectangle)
       /\ rectangle.height <= space[3] /\ rectangle.width <= space[4]
    THEN LET waste == space[3] * space[4] - rectangle.width * rectangle.height
         IN  IF AtMost(waste, acc.min_waste)
             THEN [best_space |-> space, best_space_index |-> space_index,
                   min_waste |-> Finite(waste), should_rotate |-> TRUE]
             ELSE acc
    ELSE acc

\* find_best_space, "Try with rotation if possible".
TryRotated(acc, space_index, space, rectangle) ==
    IF can_rotate(rectangle)
       /\ rectangle.height <= space[3] /\ rectangle.width <= space[4]
    THEN LET waste == space[3] * space[4] - rectangle.width * rectangle.height
         IN  IF LessThan(waste, acc.min_waste)
             THEN [best_space |-> space, best_space_index |-> space_index,
                   min_waste |-> Finite(waste), should_rotate |-> TRUE]
             ELSE acc
    ELSE acc

\* The loop of find_best_space from the 0-based index space_index on.
RECURSIVE ScanSpaces(_, _, _, _)
ScanSpaces(acc, spaces, space_index, rectangle) ==
    IF space_index >= Len(spaces) THEN acc
    ELSE LET space == spaces[space_index + 1]
             a1 == TryUnrotated(acc, space_index, space, rectangle)
             a2 == TryRotated(a1, space_index, space, rectangle)
         IN  ScanSpaces(a2, spaces, space_index + 1, rectangle)

\* Sheet.find_best_space: (best_space, best_space_index, should_rotate).
find_best_space(sheet, rectangle) ==
    LET r == ScanSpaces(NoBest, sheet.spaces, 0, rectangle)
    IN  [best_space |-> r.best_space, best_space_index |-> r.best_space_index,
         should_rotate |-> r.should_rotate]

\* list.pop(index), index 0-based.
Pop(seq, index) ==
    [k \in 1..(Len(seq) - 1) |-> IF k <= index THEN seq[k] ELSE seq[k + 1]]

\* Mutant of place_rectangle: the region below spans the width of the region.
place_rectangle_wide_bottom(sheet, rectangle, space, space_index) ==
    LET x == space[1]
        y == space[2]
        space_width == space[3]
        space_height == space[4]
        rect_width == get_dimensions(rectangle)[1]
        rect_height == get_dimensions(rectangle)[2]
        popped == Pop(sheet.spaces, space_index)
        right == IF space_width > rect_width
                 THEN << <<x + rect_width, y, space_width - rect_width, space_height>> >>
                 ELSE <<>>
        bottom == IF space_height > rect_height
                  THEN << <<x, y + rect_height, space_width, space_height - rect_height>> >>
                  ELSE <<>>
        placed == [rectangle EXCEPT !.position = <<x, y>>, !.space = space]
    IN  [sheet EXCEPT !.spaces = popped \o right \o bottom,
                      !.placed_rectangles = Append(@, placed)]

\* Mutant of place_rectangle: the region used stays in the free list.
place_rectangle_keep_space(sheet, rectangle, space, space_index) ==
    LET x == space[1]
        y == space[2]
        space_width == space[3]
        space_height == space[4]
        rect_width == get_dimensions(rectangle)[1]
        rect_height == get_dimensions(rectangle)[2]
        right == IF space_width > rect_width
                 THEN << <<x + rect_width, y, space_width - rect_width, space_height>> >>
                 ELSE <<>>
        bottom == IF space_height > rect_height
                  THEN << <<x, y + rect_height, rect_width, space_height - rect_height>> >>
                  ELSE <<>>
        placed == [rectangle EXCEPT !.position = <<x, y>>, !.space = space]
    IN  [sheet EXCEPT !.spaces = sheet.spaces \o right \o bottom,
                      !.placed_rectangles = Append(@, placed)]

\* Mutant of place_rectangle: the region below is appended before the region
\* to the right.
place_rectangle_bottom_first(sheet, rectangle, space, space_index) ==
    LET x == space[1]
        y == space[2]
        space_width == space[3]
        space_height == space[4]
        rect_width == get_dimensions(rectangle)[1]
        rect_height == get_dimensions(rectangle)[2]
        popped == Pop(sheet.spaces, space_index)
        right == IF space_width > rect_width
                 THEN << <<x + rect_width, y, space_width - rect_width, space_height>> >>
                 ELSE <<>>
        bottom == IF space_height > rect_height
                  THEN << <<x, y + rect_height, rect_width, space_height - rect_height>> >>
                  ELSE <<>>
        placed == [rectangle EXCEPT !.position = <<x, y>>, !.space = space]
    IN  [sheet EXCEPT !.spaces = popped \o bottom \o right,
                      !.placed_rectangles = Append(@, placed)]

\* Mutant of place_rectangle: the region to the right is only as high as the
\* piece.
place_rectangle_short_right(sheet, rectangle, space, space_index) ==
    LET x == space[1]
        y == space[2]
        space_width == space[3]
        space_height == space[4]
        rect_width == get_dimensions(rectangle)[1]
        rect_height == get_dimensions(rectangle)[2]
        popped == Pop(sheet.spaces, space_index)
        right == IF space_width > rect_width
                 THEN << <<x + rect_width, y, space_width - rect_width, rect_height>> >>
                 ELSE <<>>
        bottom == IF space_height > rect_height
                  THEN << <<x, y + rect_height, rect_width, space_height - rect_height>> >>
                  ELSE <<>>
        placed == [rectangle EXCEPT !.position = <<x, y>>, !.space = space]
    IN  [sheet EXCEPT !.spaces = popped \o right \o bottom,
                      !.placed_rectangles = Append(@, placed)]

\* Sheet.place_rectangle: the sheet after the call.
place_rectangle(sheet, rectangle, space, space_index) ==
    LET x == space[1]
        y == space[2]
        space_width == space[3]
        space_height == space[4]
        rect_width == get_dimensions(rectangle)[1]
        rect_height == get_dimensions(rectangle)[2]
        popped == Pop(sheet.spaces, space_index)
        right == IF space_width > rect_width
                 THEN << <<x + rect_width, y, space_width - rect_width, space_height>> >>
                 ELSE <<>>
        bottom == IF space_height > rect_height
                  THEN << <<x, y + rect_height, rect_width, space_height - rect_height>> >>
                  ELSE <<>>
        placed == [rectangle EXCEPT !.position = <<x, y>>, !.space = space]
    IN  [sheet EXCEPT !.spaces = popped \o right \o bottom,
                      !.placed_rectangles = Append(@, placed)]

(***************************************************************************)
(* optimize_cutting: expansion and sort.                                   *)
(***************************************************************************)
\* "Create rectangles from pieces": one Rectangle per unit of quantity.
RECURSIVE ExpandFrom(_, _, _)
ExpandFrom(pcs, line, next_id) ==
    IF line > Len(pcs) THEN <<>>
    ELSE LET quantity == pcs[line][3]
         IN  [k \in 1..quantity |->
                 Rectangle(next_id + k - 1, line, pcs[line][1], pcs[line][2])]
             \o ExpandFrom(pcs, line + 1, next_id + quantity)

\* Mutant of Expand: one Rectangle per demand line, whatever its quantity.
Expand_one_per_line(pcs) ==
    [line \in 1..Len(pcs) |-> Rectangle(line, line, pcs[line][1], pcs[line][2])]

Expand(pcs) == ExpandFrom(pcs, 1, 1)

Area(rectangle) == rectangle.width * rectangle.height

\* Mutant of InsertByArea: r goes in front of the elements of its own area.
RECURSIVE InsertByArea_before_ties(_, _)
InsertByArea_before_ties(sorted, r) ==
    IF sorted = <<>> THEN <<r>>
    ELSE IF Area(Head(sorted)) > Area(r)
         THEN <<Head(sorted)>> \o InsertByArea_before_ties(Tail(sorted), r)
         ELSE <<r>> \o sorted

\* Insert r behind every element whose area is at least r's.
RECURSIVE InsertByArea(_, _)
InsertByArea(sorted, r) ==
    IF sorted = <<>> THEN <<r>>
    ELSE IF Area(Head(sorted)) >= Area(r)
         THEN <<Head(sorted)>> \o InsertByArea(Tail(sorted), r)
         ELSE <<r>> \o sorted

\* rectangles.sort(key=area, reverse=True): stable, descending.
RECURSIVE SortFrom(_, _, _)
SortFrom(sorted, rects, k) ==
    IF k > Len(rects) THEN sorted
    ELSE SortFrom(InsertByArea(sorted, rects[k]), rects, k + 1)

SortByAreaDescending(rects) == SortFrom(<<>>, rects, 1)

(***************************************************************************)
(* Reporter: convert_sheet_to_dict / optimize_all_glass.                   *)
(***************************************************************************)
RECURSIVE SumAreas(_, _)
SumAreas(rects, k) ==
    IF k > Len(rects) THEN 0 ELSE Area(rects[k]) + SumAreas(rects, k + 1)

total_area(sheet) == sheet.width * sheet.height
used_area(sheet) == SumAreas(sheet.placed_rectangles, 1)

\* round(used_area / total_area * 100, 2), in hundredths of a percent
\* (round to nearest, ties to even).
efficiency(sheet) ==
    LET num == used_area(sheet) * 10000
        den == total_area(sheet)
        q == num \div den
        r == num % den
    IN  IF 2 * r > den \/ (2 * r = den /\ q % 2 = 1) THEN q + 1 ELSE q

(***************************************************************************)
(* State.                                                                  *)
(***************************************************************************)
VARIABLES
    stock_sizes,          \* GlassInventory.stock_sizes
    raised,               \* exception raised by the last call, or "none"
    pc,                   \* position of the running optimize_cutting call
    glass_code,           \* optimize_cutting: argument
    pieces,               \* optimize_cutting: argument
    stock_sheet,          \* optimize_cutting: local
    unplaced_rectangles,  \* optimize_cutting: local
    sheets,               \* optimize_cutting: local, then the return value
    placed_any,           \* optimize_cutting: local
    i,                    \* optimize_cutting: local
    prev                  \* history: result of the preceding call when this
                          \* call repeats its arguments, else NoRun

vars == <<stock_sizes, raised, pc, glass_code, pieces, stock_sheet,
          unplaced_rectangles, sheets, placed_any, i, prev>>

run_vars == <<glass_code, pieces, stock_sheet, unplaced_rectangles, sheets,
              placed_any, i, prev>>

NoStock == StockSheet(0, 0, 0)
NoRun == [stock_sheet |-> NoStock, sheets |-> <<>>]

Init ==
    /\ stock_sizes = DefaultStockSizes
    /\ raised = "none"
    /\ pc = "idle"
    /\ glass_code = ""
    /\ pieces = <<>>
    /\ stock_sheet = NoStock
    /\ unplaced_rectangles = <<>>
    /\ sheets = <<>>
    /\ placed_any = FALSE
    /\ i = 0
    /\ prev = NoRun

(***************************************************************************)
(* Operations.                                                             *)
(***************************************************************************)
\* GlassInventory.add_stock_size, called while no optimize_cutting call runs
\* or awaits its repetition.
add_stock_size(code, thickness_mm, width_mm, height_mm) ==
    /\ pc = "idle"
    /\ IF PostInitRaises(thickness_mm, width_mm, height_mm)
       THEN /\ raised' = "ValueError"
            /\ UNCHANGED stock_sizes
       ELSE /\ raised' = "none"
            /\ stock_sizes' =
                 SetItem(stock_sizes, code,
                         StockSheet(thickness_mm, width_mm, height_mm))
    /\ UNCHANGED <<pc, run_vars>>

\* Mutant of Enter: the list of sheets outlives the call.
Enter_keeping_sheets(code, pcs, history) ==
    IF code \notin DOMAIN stock_sizes
    THEN /\ raised' = "ValueError"
         /\ UNCHANGED <<stock_sizes, pc, run_vars>>
    ELSE /\ raised' = "none"
         /\ pc' = "outer"
         /\ glass_code' = code
         /\ pieces' = pcs
         /\ stock_sheet' = stock_sizes[code]
         /\ unplaced_rectangles' = SortByAreaDescending(Expand(pcs))
         /\ sheets' = sheets
         /\ placed_any' = FALSE
         /\ i' = 0
         /\ prev' = history
         /\ UNCHANGED stock_sizes

\* optimize_cutting up to the first test of the outer loop (lines 113-125).
Enter(code, pcs, history) ==
    IF code \notin DOMAIN stock_sizes
    THEN /\ raised' = "ValueError"
         /\ UNCHANGED <<stock_sizes, pc, run_vars>>
    ELSE /\ raised' = "none"
         /\ pc' = "outer"
         /\ glass_code' = code
         /\ pieces' = pcs
         /\ stock_sheet' = stock_sizes[code]
         /\ unplaced_rectangles' = SortByAreaDescending(Expand(pcs))
         /\ sheets' = <<>>
         /\ placed_any' = FALSE
         /\ i' = 0
         /\ prev' = history
         /\ UNCHANGED stock_sizes

\* A call of optimize_cutting.
optimize_cutting(code, pcs) ==
    /\ pc = "idle"
    /\ Enter(code, pcs, NoRun)

\* A second call with the arguments of the call that has just returned.
optimize_cutting_again ==
    /\ pc = "done"
    /\ prev = NoRun
    /\ Enter(glass_code, pieces, [stock_sheet |-> stock_sheet, sheets |-> sheets])

\* The caller drops the returned sheets.
Discard ==
    /\ pc = "done"
    /\ pc' = "idle"
    /\ glass_code' = ""
    /\ pieces' = <<>>
    /\ stock_sheet' = NoStock
    /\ unplaced_rectangles' = <<>>
    /\ sheets' = <<>>
    /\ placed_any' = FALSE
    /\ i' = 0
    /\ prev' = NoRun
    /\ UNCHANGED <<stock_sizes, raised>>

\* Mutant of OpenSheet: placed_any starts False, so that the passes over the
\* new sheet are skipped.
OpenSheet_without_pass ==
    /\ pc = "outer"
    /\ unplaced_rectangles # <<>>
    /\ Len(sheets) < MaxSheets
    /\ sheets' = Append(sheets, Sheet(stock_sheet))
    /\ placed_any' = FALSE
    /\ pc' = "pass"
    /\ UNCHANGED <<stock_sizes, raised, glass_code, pieces, stock_sheet,
                   unplaced_rectangles, i, prev>>

\* "while unplaced_rectangles:" true: open a sheet (lines 127-131).
OpenSheet ==
    /\ pc = "outer"
    /\ unplaced_rectangles # <<>>
    /\ Len(sheets) < MaxSheets
    /\ sheets' = Append(sheets, Sheet(stock_sheet))
    /\ placed_any' = TRUE
    /\ pc' = "pass"
    /\ UNCHANGED <<stock_sizes, raised, glass_code, pieces, stock_sheet,
                   unplaced_rectangles, i, prev>>

\* "while unplaced_rectangles:" false: return sheets (line 147).
Return ==
    /\ pc = "outer"
    /\ unplaced_rectangles = <<>>
    /\ pc' = "done"
    /\ UNCHANGED <<stock_sizes, raised, run_vars>>

\* "while placed_any:" true: start a pass over the pool (lines 132-134).
StartPass ==
    /\ pc = "pass"
    /\ placed_any
    /\ placed_any' = FALSE
    /\ i' = 0
    /\ pc' = "scan"
    /\ UNCHANGED <<stock_sizes, raised, glass_code, pieces, stock_sheet,
                   unplaced_rectangles, sheets, prev>>

\* "while placed_any:" false: the sheet is closed.
CloseSheet ==
    /\ pc = "pass"
    /\ ~placed_any
    /\ pc' = "outer"
    /\ UNCHANGED <<stock_sizes, raised, run_vars>>

\* Mutant of TryPiece: the index moves on after a placement too, so that the
\* instance that slid into the place of the one popped is skipped.
TryPiece_skipping_next ==
    /\ pc = "scan"
    /\ i < Len(unplaced_rectangles)
    /\ LET rect == unplaced_rectangles[i + 1]
           current_sheet == sheets[Len(sheets)]
           found == find_best_space(current_sheet, rect)
       IN  IF found.best_space # NoSpace
           THEN LET turned == [rect EXCEPT !.rotated = found.should_rotate]
                IN  /\ sheets' = [sheets EXCEPT ![Len(sheets)] =
                                    place_rectangle(current_sheet, turned,
                                                    found.best_space,
                                                    found.best_space_index)]
                    /\ unplaced_rectangles' = Pop(unplaced_rectangles, i)
                    /\ placed_any' = TRUE
                    /\ i' = i + 1
           ELSE /\ i' = i + 1
                /\ UNCHANGED <<sheets, unplaced_rectangles, placed_any>>
    /\ UNCHANGED <<stock_sizes, raised, pc, glass_code, pieces, stock_sheet, prev>>

\* One iteration of "while i < len(unplaced_rectangles):" (lines 135-145).
TryPiece ==
    /\ pc = "scan"
    /\ i < Len(unplaced_rectangles)
    /\ LET rect == unplaced_rectangles[i + 1]
           current_sheet == sheets[Len(sheets)]
           found == find_best_space(current_sheet, rect)
       IN  IF found.best_space # NoSpace
           THEN LET turned == [rect EXCEPT !.rotated = found.should_rotate]
                IN  /\ sheets' = [sheets EXCEPT ![Len(sheets)] =
                                    place_rectangle(current_sheet, turned,
                                                    found.best_space,
                                                    found.best_space_index)]
                    /\ unplaced_rectangles' = Pop(unplaced_rectangles, i)
                    /\ placed_any' = TRUE
                    /\ UNCHANGED i
           ELSE /\ i' = i + 1
                /\ UNCHANGED <<sheets, unplaced_rectangles, placed_any>>
    /\ UNCHANGED <<stock_sizes, raised, pc, glass_code, pieces, stock_sheet, prev>>

\* "while i < len(unplaced_rectangles):" false: the pass is over.
EndPass ==
    /\ pc = "scan"
    /\ i >= Len(unplaced_rectangles)
    /\ pc' = "pass"
    /\ UNCHANGED <<stock_sizes, raised, run_vars>>

\* The steps of a running call.
RunStep == OpenSheet \/ Return \/ StartPass \/ CloseSheet \/ TryPiece \/ EndPass

Register ==
    /\ pc = "idle"
    /\ \E code \in RegCodes, t \in ThicknessValues, w \in WidthValues, h \in HeightValues :
          add_stock_size(code, t, w, h)

Call ==
    /\ pc = "idle"
    /\ \E code \in CallCodes, pcs \in Demands : optimize_cutting(code, pcs)

Next ==
    \/ Register
    \/ Call
    \/ optimize_cutting_again
    \/ Discard
    \/ OpenSheet
    \/ Return
    \/ StartPass
    \/ CloseSheet
    \/ TryPiece
    \/ EndPass

Spec == Init /\ [][Next]_vars

\* optimize_cutting is synchronous: a call that has started keeps running.
FairSpec == Spec /\ WF_vars(RunStep)

(***************************************************************************)
(* Vocabulary of the properties.                                           *)
(***************************************************************************)
Running == pc \in {"outer", "pass", "scan"}

\* Effective (post-rotation) width and height of a piece.
EffectiveWidth(r) == IF r.rotated THEN r.height ELSE r.width
EffectiveHeight(r) == IF r.rotated THEN r.width ELSE r.height

\* Two placed pieces whose footprints share interior points.
Intersect(a, b) ==
    /\ a.position[1] < b.position[1] + EffectiveWidth(b)
    /\ b.position[1] < a.position[1] + EffectiveWidth(a)
    /\ a.position[2] < b.position[2] + EffectiveHeight(b)
    /\ b.position[2] < a.position[2] + EffectiveHeight(a)

\* A piece of the given size fits the stock sheet in some orientation.
FitsStock(width, height, stock) ==
    \/ width <= stock.width_mm /\ height <= stock.height_mm
    \/ height <= stock.width_mm /\ width <= stock.height_mm

AllFittable ==
    \A k \in DOMAIN pieces : FitsStock(pieces[k][1], pieces[k][2], stock_sheet)

RECURSIVE SumQuantities(_, _)
SumQuantities(pcs, k) ==
    IF k > Len(pcs) THEN 0 ELSE pcs[k][3] + SumQuantities(pcs, k + 1)

\* The placed pieces of all sheets, sheet after sheet.
RECURSIVE PlacedFrom(_, _)
PlacedFrom(shs, k) ==
    IF k > Len(shs) THEN <<>>
    ELSE shs[k].placed_rectangles \o PlacedFrom(shs, k + 1)

AllPlaced == PlacedFrom(sheets, 1)

(***************************************************************************)
(* C1.  No two pieces placed on the same sheet have intersecting           *)
(* footprints, in every state of optimize_cutting.                         *)
(***************************************************************************)
C1_NoOverlap ==
    \A s \in DOMAIN sheets :
        \A j, k \in DOMAIN sheets[s].placed_rectangles :
            j # k => ~Intersect(sheets[s].placed_rectangles[j],
                                sheets[s].placed_rectangles[k])

\* A returned sheet carrying three pieces, one of them rotated.
C1_Witness ==
    /\ pc = "done"
    /\ \E s \in DOMAIN sheets :
          /\ Len(sheets[s].placed_rectangles) >= 3
          /\ \E k \in DOMAIN sheets[s].placed_rectangles :
                sheets[s].placed_rectangles[k].rotated

(***************************************************************************)
(* C2.  Every placed piece lies inside its sheet and inside the free       *)
(* region it was carved from, with its effective width and height.         *)
(***************************************************************************)
C2_InsideSheetAndRegion ==
    \A s \in DOMAIN sheets :
        \A k \in DOMAIN sheets[s].placed_rectangles :
            LET r == sheets[s].placed_rectangles[k]
                x == r.position[1]
                y == r.position[2]
            IN  /\ r.position # NoPosition
                /\ 0 <= x
                /\ 0 <= y
                /\ x + EffectiveWidth(r) <= sheets[s].width
                /\ y + EffectiveHeight(r) <= sheets[s].height
                /\ r.space # NoSpace
                /\ r.space[1] <= x
                /\ r.space[2] <= y
                /\ x + EffectiveWidth(r) <= r.space[1] + r.space[3]
                /\ y + EffectiveHeight(r) <= r.space[2] + r.space[4]

\* A rotated piece placed away from the sheet's origin.
C2_Witness ==
    \E s \in DOMAIN sheets :
        \E k \in DOMAIN sheets[s].placed_rectangles :
            /\ sheets[s].placed_rectangles[k].rotated
            /\ sheets[s].placed_rectangles[k].position # <<0, 0>>

(***************************************************************************)
(* C3.  The piece instances are conserved: during a call every instance    *)
(* of the demand is either in the pool or placed on exactly one sheet,     *)
(* exactly once, and the returned sheets hold as many placed pieces as     *)
(* the sum of the requested quantities.                                    *)
(***************************************************************************)
C3_NoLossNoDuplication ==
    (Running \/ pc = "done") =>
        LET n == SumQuantities(pieces, 1)
            all == AllPlaced \o unplaced_rectangles
        IN  /\ Len(all) = n
            /\ \A id \in 1..n :
                  Cardinality({k \in DOMAIN all : all[k].id = id}) = 1
            /\ \A k \in DOMAIN all :
                  /\ all[k].line \in DOMAIN pieces
                  /\ all[k].width = pieces[all[k].line][1]
                  /\ all[k].height = pieces[all[k].line][2]
            /\ \A ln \in DOMAIN pieces :
                  Cardinality({k \in DOMAIN all : all[k].line = ln}) = pieces[ln][3]
            /\ pc = "done" => Len(AllPlaced) = n

\* A call that returned three pieces of two demand lines on two sheets.
C3_Witness ==
    /\ pc = "done"
    /\ Len(pieces) = 2
    /\ SumQuantities(pieces, 1) = 3
    /\ Len(sheets) = 2
    /\ Len(AllPlaced) = 3

(***************************************************************************)
(* C4.  A demand with a piece that fits the stock sheet in neither         *)
(* orientation makes the call fail before any sheet is created: no sheet   *)
(* is ever opened and the call raises.                                     *)
(***************************************************************************)
C4_UnfittableFailsBeforeAnySheet ==
    ((Running \/ pc = "done") /\ ~AllFittable) =>
        /\ Len(sheets) = 0
        /\ pc \notin {"pass", "scan", "done"}

(***************************************************************************)
(* Termination measure of a call whose pieces all fit: the size of the     *)
(* pool, then the number of steps the call can still take before the pool  *)
(* shrinks.  A sheet that has just been opened is empty, and the first     *)
(* piece tried on it is placed.                                            *)
(***************************************************************************)
CurrentEmpty ==
    Len(sheets) > 0 /\ sheets[Len(sheets)].placed_rectangles = <<>>

Phase ==
    LET n == Len(unplaced_rectangles)
    IN  CASE pc = "outer" -> (IF n = 0 THEN 1 ELSE 3)
          [] pc = "pass" /\ placed_any -> (IF CurrentEmpty THEN 2 ELSE 6 + n)
          [] pc = "pass" /\ ~placed_any -> 4
          [] pc = "scan" /\ placed_any -> 7 + n + (n - i)
          [] pc = "scan" /\ ~placed_any ->
                (IF CurrentEmpty /\ i = 0 THEN 1 ELSE 5 + (n - i))
          [] OTHER -> 0

Rank ==
    Len(unplaced_rectangles) * (2 * SumQuantities(pieces, 1) + 8) + Phase

\* Under FairSpec: a call whose pieces all fit returns.
EventuallyReturns ==
    (Running /\ AllFittable) ~> (pc = "done" /\ unplaced_rectangles = <<>>)

(***************************************************************************)
(* C5.  A call whose pieces all fit the stock sheet terminates with the    *)
(* pool of unplaced instances empty: until it returns it can always take   *)
(* a step, every step lowers the measure Rank, which is never negative     *)
(* (every sheet opened receives a piece), and it returns with the pool     *)
(* empty.                                                                  *)
(***************************************************************************)
C5_Terminates ==
    /\ [][(Running /\ AllFittable) => (Rank' < Rank /\ Rank' >= 0)]_vars
    /\ []((Running /\ AllFittable) =>
            CASE pc = "outer" -> ENABLED (OpenSheet \/ Return)
              [] pc = "pass" -> ENABLED (StartPass \/ CloseSheet)
              [] pc = "scan" -> i <= Len(unplaced_rectangles))
    /\ [](pc = "done" => unplaced_rectangles = <<>>)

\* A call that returned after filling three sheets.
C5_Witness ==
    /\ pc = "done"
    /\ unplaced_rectangles = <<>>
    /\ AllFittable
    /\ Len(sheets) = 3

(***************************************************************************)
(* C6.  A square piece is never rotated, placed or not, in every state.    *)
(***************************************************************************)
C6_SquareNeverRotated ==
    /\ \A k \in DOMAIN AllPlaced :
          AllPlaced[k].width = AllPlaced[k].height => ~AllPlaced[k].rotated
    /\ \A k \in DOMAIN unplaced_rectangles :
          unplaced_rectangles[k].width = unplaced_rectangles[k].height
              => ~unplaced_rectangles[k].rotated

\* A sheet holding a square piece beside a rotated piece.
C6_Witness ==
    \E s \in DOMAIN sheets :
        \E j, k \in DOMAIN sheets[s].placed_rectangles :
            /\ sheets[s].placed_rectangles[j].width
                 = sheets[s].placed_rectangles[j].height
            /\ sheets[s].placed_rectangles[k].rotated

(***************************************************************************)
(* C7.  Two calls with the same catalog entry and the same ordered demand  *)
(* return the same number of sheets and, sheet by sheet and in order, the  *)
(* same pieces with the same width, height, rotated flag and position.     *)
(***************************************************************************)
Placement(r) ==
    [width |-> r.width, height |-> r.height, rotated |-> r.rotated,
     position |-> r.position]

Layout(shs) ==
    [s \in DOMAIN shs |->
        [k \in DOMAIN shs[s].placed_rectangles |->
            Placement(shs[s].placed_rectangles[k])]]

C7_Deterministic ==
    (pc = "done" /\ prev # NoRun /\ prev.stock_sheet = stock_sheet) =>
        /\ Len(sheets) = Len(prev.sheets)
        /\ Layout(sheets) = Layout(prev.sheets)

\* A repeated call that returned two sheets, one with a rotated piece.
C7_Witness ==
    /\ pc = "done"
    /\ prev # NoRun
    /\ prev.stock_sheet = stock_sheet
    /\ Len(sheets) = 2
    /\ \E k \in DOMAIN AllPlaced : AllPlaced[k].rotated

(***************************************************************************)
(* C8.  On every sheet the used area is between 0 and the sheet's area,    *)
(* so the efficiency is between 0 and 100 percent; one piece of exactly    *)
(* the sheet's size gives 100 percent.                                     *)
(***************************************************************************)
C8_EfficiencyInRange ==
    \A s \in DOMAIN sheets :
        LET sh == sheets[s]
        IN  /\ 0 <= used_area(sh)
            /\ used_area(sh) <= total_area(sh)
            /\ 0 <= efficiency(sh)
            /\ efficiency(sh) <= 10000
            /\ (/\ Len(sh.placed_rectangles) = 1
                /\ sh.placed_rectangles[1].width = sh.width
                /\ sh.placed_rectangles[1].height = sh.height)
               => efficiency(sh) = 10000

\* Returned: a sheet filled by one piece of its size, and a sheet partly used.
C8_Witness ==
    /\ pc = "done"
    /\ \E s \in DOMAIN sheets :
          /\ Len(sheets[s].placed_rectangles) = 1
          /\ sheets[s].placed_rectangles[1].width = sheets[s].width
          /\ sheets[s].placed_rectangles[1].height = sheets[s].height
          /\ efficiency(sheets[s]) = 10000
    /\ \E s \in DOMAIN sheets :
          /\ 0 < efficiency(sheets[s])
          /\ efficiency(sheets[s]) < 10000

(***************************************************************************)
(* C9.  add_stock_size with a thickness, width or height <= 0 raises and   *)
(* leaves the catalog as it was, and every entry of the catalog has three  *)
(* strictly positive dimensions.                                           *)
(***************************************************************************)
CatalogPositive ==
    \A code \in DOMAIN stock_sizes :
        /\ stock_sizes[code].thickness_mm > 0
        /\ stock_sizes[code].width_mm > 0
        /\ stock_sizes[code].height_mm > 0

InvalidRegistrationRejected ==
    \A code \in RegCodes, t \in ThicknessValues, w \in WidthValues, h \in HeightValues :
        (add_stock_size(code, t, w, h) /\ (t <= 0 \/ w <= 0 \/ h <= 0))
            => (stock_sizes' = stock_sizes /\ raised' = "ValueError")

C9_InvalidSpecRejected ==
    [][InvalidRegistrationRejected]_vars /\ []CatalogPositive

\* A rejected registration that left the entry registered before in place.
C9_Witness ==
    /\ pc = "idle"
    /\ raised = "ValueError"
    /\ "S" \in DOMAIN stock_sizes
    /\ stock_sizes["S"] = StockSheet(6, 3, 2)

(***************************************************************************)
(* C10.  find_best_space returns no region exactly when the piece fits no  *)
(* free region in an allowed orientation; otherwise the region returned    *)
(* holds the piece in the orientation returned, has the least waste of     *)
(* all fitting (region, orientation) pairs and is the first region of the  *)
(* free list with that waste.                                              *)
(***************************************************************************)
FitsIn(space, r, rot) ==
    IF rot
    THEN r.width # r.height /\ r.height <= space[3] /\ r.width <= space[4]
    ELSE r.width <= space[3] /\ r.height <= space[4]

WasteIn(space, r) == space[3] * space[4] - r.width * r.height

BestFitCorrect(sh, r) ==
    LET res == find_best_space(sh, r)
        fitting == {p \in (DOMAIN sh.spaces) \X BOOLEAN :
                        FitsIn(sh.spaces[p[1]], r, p[2])}
    IN  IF fitting = {}
        THEN res.best_space = NoSpace
        ELSE /\ res.best_space # NoSpace
             /\ res.best_space_index + 1 \in DOMAIN sh.spaces
             /\ res.best_space = sh.spaces[res.best_space_index + 1]
             /\ FitsIn(res.best_space, r, res.should_rotate)
             /\ \A p \in fitting :
                   /\ WasteIn(res.best_space, r) <= WasteIn(sh.spaces[p[1]], r)
                   /\ WasteIn(sh.spaces[p[1]], r) = WasteIn(res.best_space, r)
                        => res.best_space_index + 1 <= p[1]

C10_BestFit ==
    \A s \in DOMAIN sheets :
        \A k \in DOMAIN unplaced_rectangles :
            BestFitCorrect(sheets[s], unplaced_rectangles[k])

\* The piece about to be tried fits two free regions with the same, least
\* waste, and the first of them is the one returned.
C10_Witness ==
    /\ pc = "scan"
    /\ i < Len(unplaced_rectangles)
    /\ LET sh == sheets[Len(sheets)]
           r == unplaced_rectangles[i + 1]
           res == find_best_space(sh, r)
       IN  /\ res.best_space # NoSpace
           /\ \E j, k \in DOMAIN sh.spaces :
                 /\ j < k
                 /\ j = res.best_space_index + 1
                 /\ \E rot \in BOOLEAN : FitsIn(sh.spaces[k], r, rot)
                 /\ WasteIn(sh.spaces[k], r) = WasteIn(sh.spaces[j], r)

(***************************************************************************)
(* C11.  Every step that places a piece with footprint (fw, fh) into the   *)
(* free region (x, y, rw, rh) sets the piece's position to (x, y), removes *)
(* exactly that region from the free list, leaves the other regions as     *)
(* they were and in the same order, and appends behind them the region to  *)
(* the right (x + fw, y, rw - fw, rh) exactly when fw < rw, then the       *)
(* region below (x, y + fh, fw, rh - fh) exactly when fh < rh.             *)
(***************************************************************************)
PlacedAsSpecified(old, new) ==
    /\ Len(new.placed_rectangles) = Len(old.placed_rectangles) + 1
    /\ SubSeq(new.placed_rectangles, 1, Len(old.placed_rectangles))
         = old.placed_rectangles
    /\ LET p == new.placed_rectangles[Len(new.placed_rectangles)]
           fw == EffectiveWidth(p)
           fh == EffectiveHeight(p)
       IN  \E k \in DOMAIN old.spaces :
              LET x == old.spaces[k][1]
                  y == old.spaces[k][2]
                  rw == old.spaces[k][3]
                  rh == old.spaces[k][4]
                  right == IF fw < rw
                           THEN << <<x + fw, y, rw - fw, rh>> >> ELSE <<>>
                  bottom == IF fh < rh
                            THEN << <<x, y + fh, fw, rh - fh>> >> ELSE <<>>
              IN  /\ p.space = old.spaces[k]
                  /\ p.position = <<x, y>>
                  /\ new.spaces = SubSeq(old.spaces, 1, k - 1)
                                    \o SubSeq(old.spaces, k + 1, Len(old.spaces))
                                    \o right \o bottom

C11_PlaceRectangle ==
    [][(pc = "scan" /\ sheets' # sheets) =>
          /\ Len(sheets') = Len(sheets)
          /\ PlacedAsSpecified(sheets[Len(sheets)], sheets'[Len(sheets)])]_vars

\* The piece placed last is narrower and lower than its region, so that both
\* regions were appended, behind a region that was left in place.
C11_Witness ==
    /\ pc = "scan"
    /\ LET sh == sheets[Len(sheets)]
           n == Len(sh.placed_rectangles)
       IN  /\ n >= 2
           /\ EffectiveWidth(sh.placed_rectangles[n]) < sh.placed_rectangles[n].space[3]
           /\ EffectiveHeight(sh.placed_rectangles[n]) < sh.placed_rectangles[n].space[4]
           /\ Len(sh.spaces) >= 3

(***************************************************************************)
(* C12.  The pool of unplaced instances is ordered by non-increasing area  *)
(* in every state of a call, instances of equal area stand in the order of *)
(* their demand lines (the order in which they were created), and a pass   *)
(* visits the pool in that order: it starts at the head, and each step     *)
(* either removes the instance visited, leaving the others in place, or    *)
(* moves to the next one.                                                  *)
(***************************************************************************)
PoolOrdered ==
    \A j, k \in DOMAIN unplaced_rectangles :
        j < k =>
            /\ Area(unplaced_rectangles[j]) >= Area(unplaced_rectangles[k])
            /\ Area(unplaced_rectangles[j]) = Area(unplaced_rectangles[k])
                 => /\ unplaced_rectangles[j].line <= unplaced_rectangles[k].line
                    /\ unplaced_rectangles[j].id < unplaced_rectangles[k].id

PassInOrder ==
    /\ (pc = "pass" /\ pc' = "scan") => i' = 0
    /\ (pc = "scan" /\ pc' = "scan") =>
          \/ i' = i + 1 /\ unplaced_rectangles' = unplaced_rectangles
          \/ /\ i' = i
             /\ i + 1 \in DOMAIN unplaced_rectangles
             /\ unplaced_rectangles'
                  = SubSeq(unplaced_rectangles, 1, i)
                      \o SubSeq(unplaced_rectangles, i + 2, Len(unplaced_rectangles))

C12_PoolSorted ==
    [](Running => PoolOrdered) /\ [][PassInOrder]_vars

\* A pass has gone by the first of two instances of equal area that come from
\* different demand lines, after the sheet took a larger piece.
C12_Witness ==
    /\ pc = "scan"
    /\ i = 1
    /\ Len(unplaced_rectangles) = 2
    /\ Area(unplaced_rectangles[1]) = Area(unplaced_rectangles[2])
    /\ unplaced_rectangles[1].line < unplaced_rectangles[2].line
    /\ unplaced_rectangles[1].width # unplaced_rectangles[2].width
    /\ Len(sheets[Len(sheets)].placed_rectangles) = 1
    /\ Area(sheets[Len(sheets)].placed_rectangles[1]) > Area(unplaced_rectangles[1])

(***************************************************************************)
(* C13.  On every sheet, in every state, each point of the sheet lies in   *)
(* the footprint of a placed piece or in a free region: the free regions   *)
(* cover all the area that the placed pieces leave.  All corners are whole *)
(* numbers here, so the points are taken cell by cell, the cell (cx, cy)   *)
(* being the unit square with lower corner (cx, cy).                       *)
(***************************************************************************)
CellInFootprint(r, cx, cy) ==
    /\ r.position[1] <= cx
    /\ cx < r.position[1] + EffectiveWidth(r)
    /\ r.position[2] <= cy
    /\ cy < r.position[2] + EffectiveHeight(r)

CellInSpace(space, cx, cy) ==
    /\ space[1] <= cx
    /\ cx < space[1] + space[3]
    /\ space[2] <= cy
    /\ cy < space[2] + space[4]

C13_FreeRegionsCover ==
    \A s \in DOMAIN sheets :
        \A cx \in 0..(sheets[s].width - 1), cy \in 0..(sheets[s].height - 1) :
            \/ \E k \in DOMAIN sheets[s].placed_rectangles :
                  CellInFootprint(sheets[s].placed_rectangles[k], cx, cy)
            \/ \E k \in DOMAIN sheets[s].spaces :
                  CellInSpace(sheets[s].spaces[k], cx, cy)

\* A sheet with two pieces, the second one carved from a region larger than
\* itself in both directions, and free regions left around them.
C13_Witness ==
    \E s \in DOMAIN sheets :
        /\ Len(sheets[s].placed_rectangles) = 2
        /\ Len(sheets[s].spaces) >= 2
        /\ LET r == sheets[s].placed_rectangles[2]
           IN  EffectiveWidth(r) < r.space[3] /\ EffectiveHeight(r) < r.space[4]

(***************************************************************************)
(* C14.  A sheet is closed only when no pending piece fits it.  The closed *)
(* sheets are all the sheets but the last one and, when the call is about  *)
(* to open a sheet or to return, or has returned, the last one too.  No    *)
(* instance of the pool fits, in an allowed orientation, a free region of  *)
(* a closed sheet, and no step of the call changes the placed pieces or    *)
(* the free regions of a closed sheet.                                     *)
(***************************************************************************)
Closed(s) ==
    /\ s \in DOMAIN sheets
    /\ s < Len(sheets) \/ pc \in {"outer", "done"}

NothingFitsClosed ==
    \A s \in DOMAIN sheets :
        Closed(s) =>
            \A k \in DOMAIN unplaced_rectangles, j \in DOMAIN sheets[s].spaces :
                \A rot \in BOOLEAN :
                    ~FitsIn(sheets[s].spaces[j], unplaced_rectangles[k], rot)

ClosedStaysAsItIs ==
    Running =>
        \A s \in DOMAIN sheets :
            Closed(s) => (s \in DOMAIN sheets' /\ sheets'[s] = sheets[s])

C14_ClosedOnlyWhenNothingFits ==
    []((Running \/ pc = "done") => NothingFitsClosed)
        /\ [][ClosedStaysAsItIs]_vars

\* The call is about to open a third sheet: instances are pending, all of
\* them fit the stock sheet, and both closed sheets have free regions left.
C14_Witness ==
    /\ pc = "outer"
    /\ unplaced_rectangles # <<>>
    /\ AllFittable
    /\ Len(sheets) = 2
    /\ sheets[1].spaces # <<>>
    /\ sheets[2].spaces # <<>>

(***************************************************************************)
(* C15.  On every sheet, in every state, the free regions are pairwise     *)
(* non-overlapping, no free region overlaps the footprint of a placed      *)
(* piece, and the areas of the free regions and of the placed pieces add   *)
(* up to the area of the sheet.                                            *)
(***************************************************************************)
SpacesIntersect(a, b) ==
    /\ a[1] < b[1] + b[3]
    /\ b[1] < a[1] + a[3]
    /\ a[2] < b[2] + b[4]
    /\ b[2] < a[2] + a[4]

SpaceMeetsFootprint(space, r) ==
    /\ space[1] < r.position[1] + EffectiveWidth(r)
    /\ r.position[1] < space[1] + space[3]
    /\ space[2] < r.position[2] + EffectiveHeight(r)
    /\ r.position[2] < space[2] + space[4]

RECURSIVE SumSpaceAreas(_, _)
SumSpaceAreas(spaces, k) ==
    IF k > Len(spaces) THEN 0
    ELSE spaces[k][3] * spaces[k][4] + SumSpaceAreas(spaces, k + 1)

C15_FreeRegionsPartition ==
    \A s \in DOMAIN sheets :
        LET sh == sheets[s]
        IN  /\ \A j, k \in DOMAIN sh.spaces :
                  j # k => ~SpacesIntersect(sh.spaces[j], sh.spaces[k])
            /\ \A j \in DOMAIN sh.spaces, k \in DOMAIN sh.placed_rectangles :
                  ~SpaceMeetsFootprint(sh.spaces[j], sh.placed_rectangles[k])
            /\ SumSpaceAreas(sh.spaces, 1) + used_area(sh) = total_area(sh)

\* A returned sheet with at least two pieces and three free regions.
C15_Witness ==
    /\ pc = "done"
    /\ \E s \in DOMAIN sheets :
          /\ Len(sheets[s].placed_rectangles) >= 2
          /\ Len(sheets[s].spaces) >= 3

(***************************************************************************)
(* C16.  An instance tried and rejected on a sheet is never placed on that *)
(* sheet later: all the placements on a sheet happen in its first pass and *)
(* every later pass over it places nothing.  A pass is a later pass        *)
(* exactly when it runs with placed_any still False over a sheet that      *)
(* holds a piece: the first pass sets placed_any with the first piece it   *)
(* places, and a later pass starts only after a pass that placed one.  The *)
(* instances rejected are those before index i during a pass and the whole *)
(* pool between the passes over a sheet; none of them fits a free region   *)
(* of the sheet, and no step of a later pass changes a sheet or the pool.  *)
(***************************************************************************)
FitsCurrent(r) ==
    LET sh == sheets[Len(sheets)]
    IN  \E j \in DOMAIN sh.spaces, rot \in BOOLEAN : FitsIn(sh.spaces[j], r, rot)

LaterPass == pc = "scan" /\ ~placed_any /\ ~CurrentEmpty

RejectedNeverFit ==
    /\ pc = "scan" =>
          \A k \in DOMAIN unplaced_rectangles :
              (k <= i \/ LaterPass) => ~FitsCurrent(unplaced_rectangles[k])
    /\ (pc = "pass" /\ ~(CurrentEmpty /\ placed_any)) =>
          \A k \in DOMAIN unplaced_rectangles : ~FitsCurrent(unplaced_rectangles[k])

LaterPassPlacesNothing ==
    LaterPass => (sheets' = sheets /\ unplaced_rectangles' = unplaced_rectangles)

C16_FirstPassPlacesAll ==
    []RejectedNeverFit /\ [][LaterPassPlacesNothing]_vars

\* A second pass over a sheet that has free regions left has rejected an
\* instance again, in a call whose pieces all fit the stock sheet.
C16_Witness ==
    /\ LaterPass
    /\ AllFittable
    /\ i >= 1
    /\ sheets[Len(sheets)].spaces # <<>>

(***************************************************************************)
(* C17.  A piece is placed rotated only when it does not fit unrotated in  *)
(* the region chosen for it: its requested width exceeds the region's      *)
(* width or its requested height exceeds the region's height.  This holds  *)
(* of every answer of find_best_space for a pooled instance and of every   *)
(* placed piece with the region it was placed in.                          *)
(***************************************************************************)
C17_RotatedOnlyWhenNeeded ==
    /\ \A s \in DOMAIN sheets :
          \A k \in DOMAIN unplaced_rectangles :
              LET res == find_best_space(sheets[s], unplaced_rectangles[k])
              IN  (res.best_space # NoSpace /\ res.should_rotate) =>
                      \/ unplaced_rectangles[k].width > res.best_space[3]
                      \/ unplaced_rectangles[k].height > res.best_space[4]
    /\ \A k \in DOMAIN AllPlaced :
          AllPlaced[k].rotated =>
              \/ AllPlaced[k].width > AllPlaced[k].space[3]
              \/ AllPlaced[k].height > AllPlaced[k].space[4]

\* A sheet with a piece placed rotated and a piece that is not square, left
\* unrotated in a region that would have held it rotated as well.
C17_Witness ==
    \E s \in DOMAIN sheets :
        \E j, k \in DOMAIN sheets[s].placed_rectangles :
            LET p == sheets[s].placed_rectangles[j]
                q == sheets[s].placed_rectangles[k]
            IN  /\ p.rotated
                /\ ~q.rotated
                /\ q.width # q.height
                /\ q.height <= q.space[3]
                /\ q.width <= q.space[4]

====
